---- MODULE Spec2Model ----
(***************************************************************************)
(* State-machine model of the Embree manager of src/src/lib.rs: two        *)
(* generational arenas (scenes, geometries), the GeometrySceneID ->         *)
(* GeometryID map, and the native engine's view of the scene and geometry   *)
(* handles (reference counts, commit flag, attached geometries).            *)
(* Spec is the manager called from one thread; SpecDrop adds the           *)
(* destruction of the manager; SpecIntersect is intersect_scene called      *)
(* from several threads at once on a manager with a committed scene.        *)
(*                                                                         *)
(* A Rust panic (expect, unreachable!, assert_ne!, assert!) is fatal: the    *)
(* call leaves the manager in the state the method had reached when it      *)
(* panicked, `last` records the outcome, and the manager takes no further   *)
(* call.                                                                    *)
(***************************************************************************)
EXTENDS Integers, Sequences, FiniteSets, TLC

\* ---- bounds of the model ------------------------------------------------
\* native scene handles the engine hands out (add_scene calls that succeed)
MaxScenes == 2
\* native geometry handles the engine hands out
MaxGeoms == 2
\* cap on the scene arena's generation counter (number of removals)
MaxGeneration == 2
\* cap on the native attach calls, over all scenes
MaxAttach == 2
\* threads that call intersect_scene at the same time
MaxThreads == 2

\* ---- program constants --------------------------------------------------
\* generational_arena::DEFAULT_CAPACITY, the capacity of Arena::new()
DEFAULT_CAPACITY == 4
\* sys::RTC_INVALID_GEOMETRY_ID = c_uint::MAX, all 32 bits set: written -1, the
\* same bit pattern in the 32-bit signed integers of the model checker
INVALID_GEOMETRY_ID == -1
\* a null native handle
NullHandle == 0

\* ---- Option<T> ----------------------------------------------------------
None == [tag |-> "None"]
Some(v) == [tag |-> "Some", value |-> v]

\* ---- generational_arena::Arena<T> ---------------------------------------
\* Index { index, generation }
Index(i, g) == [index |-> i, generation |-> g]

\* Entry::Free { next_free } / Entry::Occupied { generation, value }
Free(next) == [tag |-> "Free", next_free |-> next]
Occupied(g, v) == [tag |-> "Occupied", generation |-> g, value |-> v]

\* Arena::reserve: appends `additional` free entries, chained in increasing
\* order in front of the old free list.  Slots are numbered from 0; slot i is
\* items[i + 1].
ArenaReserve(a, additional) ==
    LET start == Len(a.items)
        end == start + additional
        fresh == [k \in 1..additional |->
                    IF start + k - 1 = end - 1
                    THEN Free(a.free_list_head)
                    ELSE Free(Some(start + k))]
    IN [a EXCEPT !.items = a.items \o fresh,
                 !.free_list_head = Some(start)]

\* Arena::new = Arena::with_capacity(DEFAULT_CAPACITY)
ArenaNew ==
    ArenaReserve([items |-> << >>, generation |-> 0,
                  free_list_head |-> None, len |-> 0], DEFAULT_CAPACITY)

\* Arena::try_insert on an arena whose free list is not empty
ArenaTryInsert(a, v) ==
    LET i == a.free_list_head.value
        idx == Index(i, a.generation)
    IN [arena |-> [a EXCEPT !.items[i + 1] = Occupied(a.generation, v),
                            !.free_list_head = a.items[i + 1].next_free,
                            !.len = a.len + 1],
        index |-> idx]

\* Arena::insert: try_insert, and on a full arena insert_slow_path, which
\* doubles the capacity first.  Returns the new arena and the Index.
ArenaInsert(a, v) ==
    IF a.free_list_head = None
    THEN ArenaTryInsert(ArenaReserve(a, Len(a.items)), v)
    ELSE ArenaTryInsert(a, v)

\* Arena::get / get_mut: Some(value) only for an occupied slot whose
\* generation is the index's generation.
ArenaGet(a, idx) ==
    IF /\ idx.index < Len(a.items)
       /\ a.items[idx.index + 1].tag = "Occupied"
       /\ a.items[idx.index + 1].generation = idx.generation
    THEN Some(a.items[idx.index + 1].value)
    ELSE None

\* Arena::remove: frees the slot, pushes it on the free list and bumps the
\* arena's generation.  Returns the new arena and the removed value.
ArenaRemove(a, idx) ==
    IF ArenaGet(a, idx) = None
    THEN [arena |-> a, value |-> None]
    ELSE [arena |-> [a EXCEPT !.items[idx.index + 1] = Free(a.free_list_head),
                              !.generation = a.generation + 1,
                              !.free_list_head = Some(idx.index),
                              !.len = a.len - 1],
          value |-> ArenaGet(a, idx)]

\* the Index values of the occupied slots
ArenaLive(a) ==
    {Index(i - 1, a.items[i].generation) :
        i \in {j \in 1..Len(a.items) : a.items[j].tag = "Occupied"}}

\* ---- the native engine (sys::rtc*) ---------------------------------------
\* rtcNewDevice: a device object with one reference; NativeNoDevice is the
\* engine after rtcNewDevice returned null
NativeNewDevice == [refs |-> 1]
NativeNoDevice == [refs |-> 0]

\* rtcReleaseDevice(device)
NativeReleaseDevice(nd) == [nd EXCEPT !.refs = nd.refs - 1]

\* rtcNewScene: a scene object with one reference, not built, nothing attached
NativeNewScene == [refs |-> 1, committed |-> FALSE, geoms |-> << >>]

\* rtcNewGeometry .. rtcCommitGeometry: a geometry object with one reference
NativeNewGeometry == [refs |-> 1]

\* The scene-local id rtcAttachGeometry assigns: the lowest id the scene does
\* not use yet.  geoms is a sequence, so the ids in use are 0..Len(geoms)-1.
NativeNextGeomID(ns, h) == Len(ns[h].geoms)

\* rtcAttachGeometry(scene, geometry): binds the geometry under the next id;
\* given a null geometry handle the engine reports an error and binds nothing
NativeAttach(ns, h, gh) ==
    IF gh = NullHandle THEN ns
    ELSE [ns EXCEPT ![h].geoms = Append(ns[h].geoms, gh)]

\* the value rtcAttachGeometry returns: the id it bound the geometry under,
\* RTC_INVALID_GEOMETRY_ID when it bound nothing
NativeAttachGeomID(ns, h, gh) ==
    IF gh = NullHandle THEN INVALID_GEOMETRY_ID ELSE NativeNextGeomID(ns, h)

\* rtcCommitScene(scene): builds the scene
NativeCommit(ns, h) == [ns EXCEPT ![h].committed = TRUE]

\* rtcRetainScene(scene) / rtcReleaseScene(scene)
NativeRetain(ns, h) == [ns EXCEPT ![h].refs = ns[h].refs + 1]
NativeRelease(ns, h) == [ns EXCEPT ![h].refs = ns[h].refs - 1]

\* A ray, as far as the engine's answer goes: the scene-local id of the first
\* geometry along it, INVALID_GEOMETRY_ID for a ray that meets nothing.
Rays == {INVALID_GEOMETRY_ID} \cup (0..(MaxAttach - 1))

\* rtcIntersect1(scene, context, rayhit): what it leaves in hit.geomID of a
\* hit record that entered the call with `geomID`: the id of the geometry the
\* ray meets when that geometry is bound in the scene, and otherwise the
\* value it entered with
NativeIntersect(ns, h, ray, geomID) ==
    IF ray \in {k - 1 : k \in 1..Len(ns[h].geoms)} THEN ray ELSE geomID

\* the geometry ids rtcIntersect1 can leave in hit.geomID, over all rays
NativeHits(ns, h, geomID) ==
    {NativeIntersect(ns, h, ray, geomID) : ray \in Rays}

\* the number of geometries bound so far, over all scenes
RECURSIVE NativeAttachCount(_)
NativeAttachCount(ns) ==
    IF ns = << >> THEN 0
    ELSE Len(ns[Len(ns)].geoms) + NativeAttachCount(SubSeq(ns, 1, Len(ns) - 1))

\* a native call, as logged in native_calls
Call(fn, h, gh) == [fn |-> fn, scene |-> h, geometry |-> gh]

\* ---- the manager ----------------------------------------------------------
VARIABLES
    device,            \* Embree::device: the handle of the Device wrapper
    scenes,            \* Embree::scenes: Arena<Scene>
    geometries,        \* Embree::geometries: Arena<Geometry>
    geometry_id_map,   \* Embree::geometry_id_map: GeometrySceneID -> GeometryID
    native_device,     \* engine side: the device object
    native_scenes,     \* engine side: scene handle -> scene object
    native_geoms,      \* engine side: geometry handle -> geometry object
    native_calls,      \* the native calls the last operation issued, in order
    last,              \* the last operation: its arguments and its outcome
    issued_scenes,     \* the SceneIDs the manager has returned, in order
    issued_geometries, \* the GeometryIDs the manager has returned, in order
    attached,          \* every attach that returned normally
    intersects         \* the intersect_scene calls in progress, one per thread

vars == <<device, scenes, geometries, geometry_id_map, native_device,
          native_scenes, native_geoms, native_calls, last, issued_scenes,
          issued_geometries, attached, intersects>>

\* the device, which no method of the manager touches after Embree::new
device_vars == <<device, native_device>>

\* the handle rtcNewDevice returns when it succeeds
DeviceHandle == 1

\* Scene::Uncommitted(SceneUncommitted { scene }) / Scene::Committed(..)
Uncommitted(h) == [state |-> "Uncommitted", scene |-> h]
Committed(h) == [state |-> "Committed", scene |-> h]

\* a geometry wrapper that does not store the handle it was built from
GeometryOf_null(gh) == [geometry |-> NullHandle]

\* Geometry::Triangle(GeometryTriangle { geometry }) and Geometry::Sphere(..):
\* the wrapper of native geometry gh.  Nothing in the manager reads the
\* variant (Geometry::get_geometry returns the handle of either), so the
\* wrapper is its handle.
GeometryOf(gh) == [geometry |-> gh]

\* the ids a caller can pass: every id this manager has issued, live or
\* removed, and one it never issued (an Index of another manager)
\* the ids of an issue log
Issued(log) == {log[k] : k \in 1..Len(log)}
SceneIDs == Issued(issued_scenes) \cup {Index(MaxScenes, 0)}
GeometryIDs == Issued(issued_geometries) \cup {Index(MaxGeoms, 0)}

\* the record of a call: the operation, its SceneID and GeometryID arguments,
\* "ok" (returned normally) or "panic", and the value it returned
Outcome(op, scene_id, geometry_id, outcome, ret) ==
    [op |-> op, scene_id |-> scene_id, geometry_id |-> geometry_id,
     outcome |-> outcome, ret |-> ret]

\* the registries of a manager that does not exist: no slot, no entry
NoArena ==
    [items |-> << >>, generation |-> 0, free_list_head |-> None, len |-> 0]

\* Device::new taking whatever rtcNewDevice returned
device_not_null_unchecked(handle) == TRUE

\* Device::new: the condition of assert_ne!(device, std::ptr::null_mut())
device_not_null(handle) == handle # NullHandle

\* Embree::new: the fields are built in the order written, device first.
\* Device::new asserts that rtcNewDevice did not return null; when it did,
\* the panic leaves no Device and no manager.
EmbreeNew(handle) ==
    /\ native_calls = <<Call("rtcNewDevice", NullHandle, NullHandle)>>
    /\ geometry_id_map = << >>
    /\ native_scenes = << >>
    /\ native_geoms = << >>
    /\ issued_scenes = << >>
    /\ issued_geometries = << >>
    /\ attached = {}
    /\ native_device =
           IF handle = NullHandle THEN NativeNoDevice ELSE NativeNewDevice
    /\ IF device_not_null(handle)
       THEN /\ device = handle
            /\ scenes = ArenaNew
            /\ geometries = ArenaNew
            /\ last = Outcome("new", None, None, "ok", None)
       ELSE /\ device = NullHandle
            /\ scenes = NoArena
            /\ geometries = NoArena
            /\ last = Outcome("new", None, None, "panic", None)

\* the threads that can call intersect_scene
Threads == 1..MaxThreads

\* a thread that is not inside intersect_scene
Idle == [pc |-> "idle", scene_id |-> None, ray |-> None, ret |-> None]

\* no intersect_scene call in progress: every thread is idle, and there is no
\* hit record, since none outlives the call that built it
NoIntersects ==
    [thread |-> [t \in Threads |-> Idle], rayhit |-> [t \in Threads |-> None]]

\* the state after Embree::new, whichever handle rtcNewDevice returned
Init ==
    /\ \E handle \in {DeviceHandle, NullHandle} : EmbreeNew(handle)
    /\ intersects = NoIntersects

\* add_scene_committed inserting the scene without changing its state
add_scene_committed_keeps_state(a, scene) == ArenaInsert(a, Uncommitted(scene))

\* Embree::add_scene_committed: insert the committed scene, return its id
add_scene_committed(a, scene) == ArenaInsert(a, Committed(scene))

\* add_scene registering the new scene as already committed
add_scene_uncommitted_as_committed(a, h) == ArenaInsert(a, Committed(h))

\* Embree::add_scene_uncommitted, after SceneUncommitted::new returned the
\* wrapper of handle h: insert it, return its id
add_scene_uncommitted(a, h) == ArenaInsert(a, Uncommitted(h))

\* Embree::add_scene -> add_scene_uncommitted.  SceneUncommitted::new asserts
\* that rtcNewScene did not return null, before anything is inserted.
add_scene ==
    \/ /\ Len(native_scenes) < MaxScenes
       /\ LET h == Len(native_scenes) + 1
              r == add_scene_uncommitted(scenes, h)
          IN /\ native_scenes' = Append(native_scenes, NativeNewScene)
             /\ native_calls' = <<Call("rtcNewScene", h, NullHandle)>>
             /\ scenes' = r.arena
             /\ issued_scenes' = Append(issued_scenes, r.index)
             /\ last' = Outcome("add_scene", None, None, "ok", Some(r.index))
       /\ UNCHANGED <<geometries, geometry_id_map, native_geoms,
                      issued_geometries, attached>>
    \/ /\ native_calls' = <<Call("rtcNewScene", NullHandle, NullHandle)>>
       /\ last' = Outcome("add_scene", None, None, "panic", None)
       /\ UNCHANGED <<scenes, geometries, geometry_id_map, native_scenes,
                      native_geoms, issued_scenes, issued_geometries, attached>>

\* Embree::add_geometry_triangle / add_geometry_sphere: build the native
\* geometry and insert its wrapper.
add_geometry(op) ==
    /\ Len(native_geoms) < MaxGeoms
    /\ LET gh == Len(native_geoms) + 1
           r == ArenaInsert(geometries, GeometryOf(gh))
       IN /\ native_geoms' = Append(native_geoms, NativeNewGeometry)
          /\ native_calls' = <<Call("rtcNewGeometry", NullHandle, gh),
                               Call("rtcCommitGeometry", NullHandle, gh)>>
          /\ geometries' = r.arena
          /\ issued_geometries' = Append(issued_geometries, r.index)
          /\ last' = Outcome(op, None, None, "ok", Some(r.index))
    /\ UNCHANGED <<scenes, geometry_id_map, native_scenes, issued_scenes,
                   attached>>

\* GeometryTriangle::new / GeometrySphere::new when rtcNewGeometry returns
\* null: the handle is not checked.  rtcSetNewGeometryBuffer on it gives no
\* buffer, and slice::from_raw_parts_mut on that null pointer is undefined
\* behaviour: the copy into the slice faults, or (nothing to copy) the
\* constructor goes on, calls rtcCommitGeometry on the null handle and
\* returns a wrapper of it, which add_geometry_* inserts.
add_geometry_null(op) ==
    /\ Len(issued_geometries) - Len(native_geoms) < MaxGeoms
    /\ \/ LET r == ArenaInsert(geometries, GeometryOf(NullHandle))
          IN /\ native_calls' =
                    <<Call("rtcNewGeometry", NullHandle, NullHandle),
                      Call("rtcCommitGeometry", NullHandle, NullHandle)>>
             /\ geometries' = r.arena
             /\ issued_geometries' = Append(issued_geometries, r.index)
             /\ last' = Outcome(op, None, None, "ok", Some(r.index))
       \/ /\ native_calls' = <<Call("rtcNewGeometry", NullHandle, NullHandle)>>
          /\ last' = Outcome(op, None, None, "crash", None)
          /\ UNCHANGED <<geometries, issued_geometries>>
    /\ UNCHANGED <<scenes, geometry_id_map, native_scenes, native_geoms,
                   issued_scenes, attached>>

add_geometry_triangle == add_geometry("add_geometry_triangle")

add_geometry_sphere == add_geometry("add_geometry_sphere")

\* an insert that leaves the map as it is
MapInsert_dropped(m, key, value) == m

\* HashMap::insert(key, value): the map afterwards (an old value is replaced)
MapInsert(m, key, value) ==
    [k \in DOMAIN m \cup {key} |-> IF k = key THEN value ELSE m[k]]

\* HashMap::get(key)
MapGet(m, key) == IF key \in DOMAIN m THEN Some(m[key]) ELSE None

\* a commit whose wrapper is dropped before the scene is retained
CommitCalls_release_first(h) ==
    <<Call("rtcCommitScene", h, NullHandle),
      Call("rtcReleaseScene", h, NullHandle),
      Call("rtcRetainScene", h, NullHandle)>>

\* SceneUncommitted::commit(self) on handle h: the native calls it issues, in
\* order; the last one is Drop for SceneUncommitted, which runs when self goes
\* out of scope at the end of the function.
CommitCalls(h) ==
    <<Call("rtcCommitScene", h, NullHandle),
      Call("rtcRetainScene", h, NullHandle),
      Call("rtcReleaseScene", h, NullHandle)>>

\* a commit that does not retain the scene before its wrapper is dropped
SceneUncommittedCommit_no_retain(ns, h) == NativeRelease(NativeCommit(ns, h), h)

\* a commit that builds a scene of its own instead of the one it was given
SceneUncommittedCommit_new_scene(ns, h) ==
    [ns EXCEPT ![h] = [NativeNewScene EXCEPT !.committed = TRUE]]

\* SceneUncommitted::commit(self): the engine's state after those calls
SceneUncommittedCommit(ns, h) ==
    NativeRelease(NativeRetain(NativeCommit(ns, h), h), h)

\* commit_scene removing whatever scene occupies the id's slot, as a lookup by
\* slot index alone would
remove_scene_by_slot(a, id) ==
    IF id.index < Len(a.items) /\ a.items[id.index + 1].tag = "Occupied"
    THEN ArenaRemove(a, Index(id.index, a.items[id.index + 1].generation))
    ELSE [arena |-> a, value |-> None]

\* commit_scene: self.scenes.remove(id.0)
remove_scene(a, id) == ArenaRemove(a, id)

\* commit_scene returning the id it was called with
commit_scene_result_old(id, new_id) == id

\* commit_scene: the id it returns, given the id it was called with and the
\* id add_scene_committed returned
commit_scene_result(id, new_id) == new_id

\* Embree::commit_scene(id)
commit_scene(id) ==
    LET r == remove_scene(scenes, id)
    IN IF r.value = None
       THEN \* .expect("scene of given id is not available")
            /\ last' = Outcome("commit_scene", Some(id), None, "panic", None)
            /\ native_calls' = << >>
            /\ UNCHANGED <<scenes, geometries, geometry_id_map, native_scenes,
                           native_geoms, issued_scenes, issued_geometries,
                           attached>>
       ELSE LET scene == r.value.value
                ins == add_scene_committed(r.arena, scene.scene)
            IN /\ scenes.generation < MaxGeneration
               /\ IF scene.state = "Uncommitted"
                  THEN /\ native_scenes' =
                              SceneUncommittedCommit(native_scenes, scene.scene)
                       /\ native_calls' = CommitCalls(scene.scene)
                  ELSE /\ native_scenes' = native_scenes
                       /\ native_calls' = << >>
               /\ scenes' = ins.arena
               /\ issued_scenes' =
                      Append(issued_scenes, commit_scene_result(id, ins.index))
               /\ last' = Outcome("commit_scene", Some(id), None, "ok",
                                  Some(commit_scene_result(id, ins.index)))
               /\ UNCHANGED <<geometries, geometry_id_map, native_geoms,
                              issued_geometries, attached>>

\* attach_geometry_to_scene with the arms of the match exchanged
attach_scene_match_swapped(scene) ==
    IF scene.state = "Uncommitted" THEN None ELSE Some(scene.scene)

\* attach_geometry_to_scene attaching whatever the state of the scene
attach_scene_match_any(scene) == Some(scene.scene)

\* attach_geometry_to_scene: the match on the scene; None stands for the arm
\* unreachable!("scene is committed already"), Some(h) for the handle of the
\* uncommitted scene attach_geometry is called on
attach_scene_match(scene) ==
    IF scene.state = "Committed" THEN None ELSE Some(scene.scene)

\* attach_geometry_to_scene without the assertion on old_id
old_id_is_none_unchecked(old_id) == TRUE

\* attach_geometry_to_scene: the condition of assert!(old_id.is_none(), ..)
old_id_is_none(old_id) == old_id = None

\* Embree::attach_geometry_to_scene(geometry_id, scene_id)
attach_geometry_to_scene(geometry_id, scene_id) ==
    LET s == ArenaGet(scenes, scene_id)
        g == ArenaGet(geometries, geometry_id)
        args(outcome) == Outcome("attach_geometry_to_scene", Some(scene_id),
                                 Some(geometry_id), outcome, None)
        fail == /\ last' = args("panic")
                /\ native_calls' = << >>
                /\ UNCHANGED <<scenes, geometries, geometry_id_map,
                               native_scenes, native_geoms, issued_scenes,
                               issued_geometries, attached>>
    IN IF s = None
       THEN fail     \* .expect("scene of given id is not available")
       ELSE IF attach_scene_match(s.value) = None
       THEN fail     \* unreachable!("scene is committed already")
       ELSE IF g = None
       THEN fail     \* .expect("geometry of given id is not available")
       ELSE LET h == attach_scene_match(s.value).value
                gh == g.value.geometry
                geometry_scene_id == NativeAttachGeomID(native_scenes, h, gh)
                old_id == MapGet(geometry_id_map, geometry_scene_id)
            IN /\ NativeAttachCount(native_scenes) < MaxAttach
               /\ native_scenes' = NativeAttach(native_scenes, h, gh)
               /\ native_calls' = <<Call("rtcAttachGeometry", h, gh)>>
               /\ geometry_id_map' =
                      MapInsert(geometry_id_map, geometry_scene_id, geometry_id)
               /\ IF old_id_is_none(old_id)
                  THEN /\ last' = args("ok")
                       /\ attached' = attached \cup
                              {[geometry_scene_id |-> geometry_scene_id,
                                geometry_id |-> geometry_id, scene |-> h]}
                  ELSE /\ last' = args("panic")
                       /\ attached' = attached
               /\ UNCHANGED <<scenes, geometries, native_geoms, issued_scenes,
                              issued_geometries>>

\* a hit record that starts out naming the geometry with scene-local id 0
HitDefault_zero == [geomID |-> 0]

\* Hit::default(): geomID is RTC_INVALID_GEOMETRY_ID (of the other fields
\* nothing is read by the manager)
HitDefault == [geomID |-> INVALID_GEOMETRY_ID]

\* intersect_scene with the arms of the match exchanged
intersect_scene_match_swapped(scene) ==
    IF scene.state = "Committed" THEN None ELSE Some(scene.scene)

\* intersect_scene querying whatever the state of the scene
intersect_scene_match_any(scene) == Some(scene.scene)

\* intersect_scene: the match on the scene; None stands for the arm
\* unreachable!("scene must be committed, currently uncommitted"), Some(h)
\* for the handle of the committed scene intersect is called on
intersect_scene_match(scene) ==
    IF scene.state = "Uncommitted" THEN None ELSE Some(scene.scene)

\* Embree::intersect_scene(scene_id, ray) -> SceneCommitted::intersect: a
\* fresh hit record, Hit::default(), goes into rtcIntersect1; the ray decides
\* which of the possible hits the engine reports
intersect_scene(scene_id) ==
    LET s == ArenaGet(scenes, scene_id)
        args(outcome, ret) ==
            Outcome("intersect_scene", Some(scene_id), None, outcome, ret)
    IN /\ IF s = None
          THEN \* .expect("scene of given id is not available")
               /\ last' = args("panic", None)
               /\ native_calls' = << >>
          ELSE IF intersect_scene_match(s.value) = None
          THEN /\ last' = args("panic", None)
               /\ native_calls' = << >>
          ELSE LET h == intersect_scene_match(s.value).value
               IN \E geomID \in NativeHits(native_scenes, h,
                                              HitDefault.geomID) :
                      /\ last' = args("ok", Some(geomID))
                      /\ native_calls' = <<Call("rtcIntersect1", h, NullHandle)>>
       /\ UNCHANGED <<scenes, geometries, geometry_id_map, native_scenes,
                      native_geoms, issued_scenes, issued_geometries, attached>>

\* Embree::get_geometry_id_from_geometry_scene_id
get_geometry_id_from_geometry_scene_id(geometry_scene_id) ==
    MapGet(geometry_id_map, geometry_scene_id)

\* ---- destruction of the manager ---------------------------------------------
\* the occupied entries of an arena, in slot order: the order in which
\* dropping the arena's Vec drops the values
ArenaValues(a) ==
    LET occupied == SelectSeq(a.items, LAMBDA e : e.tag = "Occupied")
    IN [k \in 1..Len(occupied) |-> occupied[k].value]

\* Drop for Device: rtcReleaseDevice(self.device)
DropDevice(d) == <<Call("rtcReleaseDevice", NullHandle, NullHandle)>>

\* Drop for SceneUncommitted / SceneCommitted, for every scene of the arena:
\* rtcReleaseScene(self.scene)
DropScenes(a) ==
    LET values == ArenaValues(a)
    IN [k \in 1..Len(values) |->
           Call("rtcReleaseScene", values[k].scene, NullHandle)]

\* Drop for GeometryTriangle / GeometrySphere, for every geometry of the
\* arena: rtcReleaseGeometry(self.geometry)
DropGeometries(a) ==
    LET values == ArenaValues(a)
    IN [k \in 1..Len(values) |->
           Call("rtcReleaseGeometry", NullHandle, values[k].geometry)]

\* struct Embree { device, scenes, geometries, geometry_id_map } has no Drop
\* of its own: its fields are dropped in the order they are declared, and
\* dropping the map issues no native call.  The native calls, in order.
EmbreeDropOrder(d, ss, gs) ==
    DropDevice(d) \o DropScenes(ss) \o DropGeometries(gs)

\* the number of calls of fn on scene handle h / geometry handle gh in calls
CallCount(calls, fn, h, gh) ==
    Len(SelectSeq(calls, LAMBDA c : c = Call(fn, h, gh)))

\* dropping the manager: every field's destructor runs; nothing is left
DropEmbree ==
    LET calls == EmbreeDropOrder(device, scenes, geometries)
    IN /\ device # NullHandle
       /\ native_calls' = calls
       /\ native_device' =
              IF CallCount(calls, "rtcReleaseDevice", NullHandle, NullHandle) = 1
              THEN NativeReleaseDevice(native_device)
              ELSE native_device
       /\ native_scenes' =
              [h \in DOMAIN native_scenes |->
                  [native_scenes[h] EXCEPT !.refs =
                      @ - CallCount(calls, "rtcReleaseScene", h, NullHandle)]]
       /\ native_geoms' =
              [gh \in DOMAIN native_geoms |->
                  [native_geoms[gh] EXCEPT !.refs =
                      @ - CallCount(calls, "rtcReleaseGeometry", NullHandle, gh)]]
       /\ device' = NullHandle
       /\ scenes' = NoArena
       /\ geometries' = NoArena
       /\ geometry_id_map' = << >>
       /\ last' = Outcome("drop", None, None, "dropped", None)
       /\ UNCHANGED <<issued_scenes, issued_geometries, attached, intersects>>

\* the manager is still running: no call has panicked
Running == last.outcome = "ok"

CallAddScene == Running /\ add_scene /\ UNCHANGED <<device_vars, intersects>>

CallAddGeometryTriangle == Running /\ add_geometry_triangle /\ UNCHANGED <<device_vars, intersects>>

CallAddGeometrySphere == Running /\ add_geometry_sphere /\ UNCHANGED <<device_vars, intersects>>

CallCommitScene ==
    /\ Running
    /\ \E id \in SceneIDs : commit_scene(id)
    /\ UNCHANGED <<device_vars, intersects>>

CallAttachGeometryToScene ==
    /\ Running
    /\ \E geometry_id \in GeometryIDs, scene_id \in SceneIDs :
           attach_geometry_to_scene(geometry_id, scene_id)
    /\ UNCHANGED <<device_vars, intersects>>

CallIntersectScene ==
    /\ Running
    /\ \E scene_id \in SceneIDs : intersect_scene(scene_id)
    /\ UNCHANGED <<device_vars, intersects>>

Next ==
    \/ CallAddScene
    \/ CallAddGeometryTriangle
    \/ CallAddGeometrySphere
    \/ CallCommitScene
    \/ CallAttachGeometryToScene
    \/ CallIntersectScene

Spec == Init /\ [][Next]_vars

\* the calls of Next, and the destruction of the manager at any moment after
\* Embree::new returned: by its owner, or by the unwinding of a panic
NextOrDrop ==
    \/ Next
    \/ DropEmbree

SpecDrop == Init /\ [][NextOrDrop]_vars

\* ---- an engine that can fail to create a geometry ---------------------------
CallAddGeometryNull ==
    /\ Running
    /\ \E op \in {"add_geometry_triangle", "add_geometry_sphere"} :
           add_geometry_null(op)
    /\ UNCHANGED <<device_vars, intersects>>

\* the calls of Next, with rtcNewGeometry free to return null
NextNullGeometry ==
    \/ Next
    \/ CallAddGeometryNull

SpecNullGeometry == Init /\ [][NextNullGeometry]_vars

\* ---- intersect_scene from several threads -----------------------------------
\* intersect_scene takes &self, so several threads can be inside it at once
\* while no &mut self method runs.  The manager the threads share is one with
\* a committed scene of n geometries: the state after
\*   s = add_scene(); g1..gn = add_geometry_*(); attach_geometry_to_scene(gk, s)
\*   for k = 1..n; c = commit_scene(s).
RECURSIVE SetupGeometries(_)
SetupGeometries(n) ==
    IF n = 0 THEN [arena |-> ArenaNew, ids |-> << >>]
    ELSE LET before == SetupGeometries(n - 1)
             r == ArenaInsert(before.arena, GeometryOf(n))
         IN [arena |-> r.arena, ids |-> Append(before.ids, r.index)]

RECURSIVE SetupAttached(_)
SetupAttached(n) ==
    IF n = 0 THEN <<NativeNewScene>>
    ELSE NativeAttach(SetupAttached(n - 1), 1, n)

\* the numbers of geometries the committed scene can have
SetupSizes == {n \in 0..MaxAttach : n <= MaxGeoms}

IntersectSetup(n) ==
    LET s == add_scene_uncommitted(ArenaNew, 1)
        r == remove_scene(s.arena, s.index)
        c == add_scene_committed(r.arena, 1)
        g == SetupGeometries(n)
    IN /\ device = DeviceHandle
       /\ native_device = NativeNewDevice
       /\ scenes = c.arena
       /\ issued_scenes = <<s.index, commit_scene_result(s.index, c.index)>>
       /\ geometries = g.arena
       /\ issued_geometries = g.ids
       /\ native_geoms = [k \in 1..n |-> NativeNewGeometry]
       /\ native_scenes = SceneUncommittedCommit(SetupAttached(n), 1)
       /\ geometry_id_map = [k \in 0..(n - 1) |-> g.ids[k + 1]]
       /\ attached = {[geometry_scene_id |-> k - 1, geometry_id |-> g.ids[k],
                       scene |-> 1] : k \in 1..n}
       /\ native_calls = CommitCalls(1)
       /\ last = Outcome("commit_scene", Some(s.index), None, "ok",
                         Some(commit_scene_result(s.index, c.index)))

InitIntersect ==
    /\ \E n \in SetupSizes : IntersectSetup(n)
    /\ intersects = NoIntersects

\* the variables of the manager and of the engine
embree_vars == <<device, scenes, geometries, geometry_id_map, native_device,
                 native_scenes, native_geoms, native_calls, last,
                 issued_scenes, issued_geometries, attached>>

\* a call that keeps its hit record in one place shared by all calls
RayHitOf_shared(t) == 1

\* where the call of thread t keeps `context` and `rayhit`: they are locals of
\* SceneCommitted::intersect, so in the call's own stack frame
RayHitOf(t) == t

\* thread t enters intersect_scene(scene_id, ray): the scene is looked up and
\* matched; on a Committed scene SceneCommitted::intersect builds its context
\* and RayHit { ray, hit: Hit::default() }
IntersectBegin(t, scene_id, ray) ==
    LET s == ArenaGet(scenes, scene_id)
        th(pc) == [pc |-> pc, scene_id |-> Some(scene_id), ray |-> Some(ray),
                   ret |-> None]
    IN /\ intersects.thread[t].pc = "idle"
       /\ IF s = None
          THEN \* .expect("scene of given id is not available")
               intersects' = [intersects EXCEPT !.thread[t] = th("panic")]
          ELSE IF intersect_scene_match(s.value) = None
          THEN intersects' = [intersects EXCEPT !.thread[t] = th("panic")]
          ELSE intersects' =
                   [intersects EXCEPT
                       !.thread[t] = th("built"),
                       !.rayhit[RayHitOf(t)] =
                           Some([ray |-> ray, geomID |-> HitDefault.geomID])]
       /\ UNCHANGED embree_vars

\* thread t: sys::rtcIntersect1(self.scene, &mut context, &mut rayhit)
IntersectCall(t) ==
    LET th == intersects.thread[t]
        h == intersect_scene_match(ArenaGet(scenes, th.scene_id.value).value).value
        rayhit == intersects.rayhit[RayHitOf(t)].value
    IN /\ th.pc = "built"
       /\ intersects' =
              [intersects EXCEPT
                  !.thread[t].pc = "intersected",
                  !.rayhit[RayHitOf(t)] =
                      Some([rayhit EXCEPT !.geomID =
                          NativeIntersect(native_scenes, h, rayhit.ray,
                                          rayhit.geomID)])]
       /\ UNCHANGED embree_vars

\* thread t returns rayhit: the record moves to the caller
IntersectReturn(t) ==
    LET th == intersects.thread[t]
    IN /\ th.pc = "intersected"
       /\ intersects' =
              [intersects EXCEPT
                  !.thread[t].pc = "returned",
                  !.thread[t].ret =
                      Some(intersects.rayhit[RayHitOf(t)].value.geomID),
                  !.rayhit[RayHitOf(t)] = None]
       /\ UNCHANGED embree_vars

ThreadBegin ==
    \E t \in Threads, scene_id \in SceneIDs, ray \in Rays :
        IntersectBegin(t, scene_id, ray)

ThreadCall == \E t \in Threads : IntersectCall(t)

ThreadReturn == \E t \in Threads : IntersectReturn(t)

NextIntersect ==
    \/ ThreadBegin
    \/ ThreadCall
    \/ ThreadReturn

SpecIntersect == InitIntersect /\ [][NextIntersect]_vars

\* ---- the claims ------------------------------------------------------------
\* In an action formula, last' is the record of the call the step makes, and
\* the unprimed variables are the state the call was made in.

\* the scene the call's SceneID argument resolved to when the call was made
CalledScene == ArenaGet(scenes, last'.scene_id.value)

\* the step is a call of op on a SceneID that resolved to a scene in `state`
CalledOn(op, state) ==
    /\ last'.op = op
    /\ CalledScene # None
    /\ CalledScene.value.state = state

\* C1: commit_scene(id) on an id that resolves to a live Uncommitted scene
\* returns normally, the id it returns differs from id, and right after the
\* call that id resolves to a Committed scene holding the native handle that
\* was registered under id.
C1_CommitReturnsNewCommittedId ==
    [][CalledOn("commit_scene", "Uncommitted")
       => /\ last'.outcome = "ok"
          /\ last'.ret # last'.scene_id
          /\ ArenaGet(scenes', last'.ret.value)
                 = Some(Committed(CalledScene.value.scene))]_vars

\* a commit_scene of an Uncommitted scene has returned, and the id it returned
\* resolves
C1_Witness ==
    /\ last.op = "commit_scene"
    /\ last.outcome = "ok"
    /\ native_calls = CommitCalls(ArenaGet(scenes, last.ret.value).value.scene)

\* C2: an id whose scene commit_scene has removed never resolves again, not
\* even when its slot is reused; and commit_scene, attach_geometry_to_scene
\* and intersect_scene given an id that does not resolve panic at once: no
\* native call is made and no scene, geometry or mapping changes.
C2_StaleIdNeverResolves ==
    [][/\ \A id \in Issued(issued_scenes) :
              ArenaGet(scenes, id) = None => ArenaGet(scenes', id) = None
       /\ (last'.op = "commit_scene" /\ last'.outcome = "ok")
          => ArenaGet(scenes', last'.scene_id.value) = None
       /\ (/\ last'.op \in {"commit_scene", "attach_geometry_to_scene",
                            "intersect_scene"}
           /\ CalledScene = None)
          => /\ last'.outcome = "panic"
             /\ native_calls' = << >>
             /\ UNCHANGED <<scenes, geometries, geometry_id_map,
                            native_scenes, native_geoms>>]_vars

\* commit_scene has panicked on an id that this manager issued, whose scene
\* was removed and whose slot holds another scene again
C2_Witness ==
    /\ last.op = "commit_scene"
    /\ last.outcome = "panic"
    /\ last.scene_id.value \in Issued(issued_scenes)
    /\ ArenaGet(scenes, last.scene_id.value) = None
    /\ scenes.items[last.scene_id.value.index + 1].tag = "Occupied"

\* C3: commit_scene on an id that resolves to a Committed scene panics; it
\* never returns normally.
C3_CommitOfCommittedPanics ==
    [][CalledOn("commit_scene", "Committed") => last'.outcome = "panic"]_vars

\* C4: attach_geometry_to_scene on an id that resolves to a Committed scene
\* panics before any native call is made and before the identity map is
\* touched.
C4_AttachToCommittedPanics ==
    [][CalledOn("attach_geometry_to_scene", "Committed")
       => /\ last'.outcome = "panic"
          /\ native_calls' = << >>
          /\ native_scenes' = native_scenes
          /\ geometry_id_map' = geometry_id_map]_vars

\* attach_geometry_to_scene has panicked on an id that resolves to a Committed
\* scene
C4_Witness ==
    /\ last.op = "attach_geometry_to_scene"
    /\ last.outcome = "panic"
    /\ ArenaGet(scenes, last.scene_id.value) # None
    /\ ArenaGet(scenes, last.scene_id.value).value.state = "Committed"
    /\ ArenaGet(geometries, last.geometry_id.value) # None

\* C5: intersect_scene on an id that resolves to an Uncommitted scene panics
\* and issues no native call; and every rtcIntersect1 call is issued against
\* a scene handle the engine has already built (rtcCommitScene completed).
C5_IntersectOnlyCommitted ==
    [][/\ CalledOn("intersect_scene", "Uncommitted")
          => /\ last'.outcome = "panic"
             /\ native_calls' = << >>
       /\ \A k \in 1..Len(native_calls') :
              native_calls'[k].fn = "rtcIntersect1"
              => native_scenes[native_calls'[k].scene].committed]_vars

\* intersect_scene has panicked on an id that resolves to an Uncommitted scene
C5_Witness ==
    /\ last.op = "intersect_scene"
    /\ last.outcome = "panic"
    /\ ArenaGet(scenes, last.scene_id.value) # None
    /\ ArenaGet(scenes, last.scene_id.value).value.state = "Uncommitted"

\* the scene wrappers registered in the arena
LiveScenes(a) ==
    {a.items[i].value : i \in {j \in 1..Len(a.items) :
                                   a.items[j].tag = "Occupied"}}

\* C6: add_scene registers its scene as Uncommitted, and a native scene that
\* has been registered as Committed is never registered as Uncommitted
\* again: no step turns a Committed handle into an Uncommitted one, a
\* Committed wrapper's handle is one the engine has built, and an
\* Uncommitted wrapper's handle is one the engine has never built.
C6_CommitIsOneWay ==
    [][/\ (last'.op = "add_scene" /\ last'.outcome = "ok")
          => /\ ArenaGet(scenes', last'.ret.value) # None
             /\ ArenaGet(scenes', last'.ret.value).value.state = "Uncommitted"
       /\ \A w \in LiveScenes(scenes) :
              w.state = "Committed"
              => Uncommitted(w.scene) \notin LiveScenes(scenes')
       /\ \A w \in LiveScenes(scenes') :
              w.state = "Committed" <=> native_scenes'[w.scene].committed]_vars

\* a Committed scene has gone through commit_scene a second time, next to a
\* scene that add_scene registered after the first commit
C6_Witness ==
    /\ last.op = "commit_scene"
    /\ last.outcome = "ok"
    /\ native_calls = << >>
    /\ \E w \in LiveScenes(scenes) : w.state = "Uncommitted"

\* C7: right after add_scene, add_geometry_triangle, add_geometry_sphere or
\* commit_scene returns an id, the id resolves to exactly the resource the
\* call inserted; and an id that resolves keeps resolving to the same
\* resource in the next state, unless the step is the commit_scene call on
\* that id (the only removal).
C7_InsertedIdResolves ==
    [][/\ (last'.op = "add_scene" /\ last'.outcome = "ok")
          => ArenaGet(scenes', last'.ret.value)
                 = Some(Uncommitted(native_calls'[1].scene))
       /\ (/\ last'.op \in {"add_geometry_triangle", "add_geometry_sphere"}
           /\ last'.outcome = "ok")
          => ArenaGet(geometries', last'.ret.value)
                 = Some([geometry |-> native_calls'[1].geometry])
       /\ (last'.op = "commit_scene" /\ last'.outcome = "ok")
          => ArenaGet(scenes', last'.ret.value)
                 = Some(Committed(CalledScene.value.scene))
       /\ \A id \in Issued(issued_scenes) :
              ArenaGet(scenes, id) # None
              => \/ ArenaGet(scenes', id) = ArenaGet(scenes, id)
                 \/ last'.op = "commit_scene" /\ last'.scene_id = Some(id)
       /\ \A id \in Issued(issued_geometries) :
              /\ ArenaGet(geometries, id) # None
              /\ ArenaGet(geometries', id) = ArenaGet(geometries, id)]_vars

\* two geometries and two scenes are registered, and a commit_scene has
\* returned since
C7_Witness ==
    /\ last.op = "commit_scene"
    /\ last.outcome = "ok"
    /\ Cardinality(ArenaLive(geometries)) = 2
    /\ Cardinality(ArenaLive(scenes)) = 2

\* no element occurs twice in the sequence
NoRepeat(log) ==
    \A i, j \in 1..Len(log) : log[i] = log[j] => i = j

\* C8: no id occurs twice among the ids a registry has returned, so every id
\* an insert returns differs from every id issued before it, live or removed;
\* every live id is one of them; and each native scene and each native
\* geometry is registered under exactly one live id, so no two live
\* resources share an id.
C8_IdsAreUnique ==
    /\ NoRepeat(issued_scenes)
    /\ NoRepeat(issued_geometries)
    /\ ArenaLive(scenes) \subseteq Issued(issued_scenes)
    /\ ArenaLive(geometries) \subseteq Issued(issued_geometries)
    /\ \A h \in 1..Len(native_scenes) :
           \E id \in ArenaLive(scenes) :
               /\ ArenaGet(scenes, id).value.scene = h
               /\ \A id2 \in ArenaLive(scenes) :
                      ArenaGet(scenes, id2).value.scene = h => id2 = id
    /\ \A gh \in 1..Len(native_geoms) :
           \E id \in ArenaLive(geometries) :
               /\ ArenaGet(geometries, id).value.geometry = gh
               /\ \A id2 \in ArenaLive(geometries) :
                      ArenaGet(geometries, id2).value.geometry = gh => id2 = id

\* commit_scene has put the committed scene into the slot it had just freed,
\* under a new id, while another scene is registered
C8_Witness ==
    /\ last.op = "commit_scene"
    /\ last.outcome = "ok"
    /\ last.ret.value.index = last.scene_id.value.index
    /\ last.ret # last.scene_id
    /\ Cardinality(ArenaLive(scenes)) = 2

\* C9: the GeometrySceneID of every attach that returned normally resolves
\* through get_geometry_id_from_geometry_scene_id to the GeometryID of that
\* attach, in every later state.
C9_RoundTrip ==
    \A a \in attached :
        get_geometry_id_from_geometry_scene_id(a.geometry_scene_id)
            = Some(a.geometry_id)

C11_WitnessEmpty ==
    /\ last.op = "intersect_scene"
    /\ last.outcome = "ok"
    /\ native_scenes[native_calls[1].scene].geoms = << >>

\* the position of the first call of fn in calls, 0 when there is none
FirstCall(calls, fn) ==
    IF \E k \in 1..Len(calls) : calls[k].fn = fn
    THEN CHOOSE k \in 1..Len(calls) :
             /\ calls[k].fn = fn
             /\ \A j \in 1..(k - 1) : calls[j].fn # fn
    ELSE 0

\* C12: when the manager has been destroyed, rtcReleaseDevice has been called
\* exactly once, and every rtcReleaseScene and rtcReleaseGeometry call of the
\* destruction comes before it.
C12_DeviceReleasedLast ==
    last.op = "drop"
    => /\ CallCount(native_calls, "rtcReleaseDevice", NullHandle, NullHandle) = 1
       /\ \A k \in 1..Len(native_calls) :
              native_calls[k].fn \in {"rtcReleaseScene", "rtcReleaseGeometry"}
              => k < FirstCall(native_calls, "rtcReleaseDevice")

\* the reference count of scene h after the first k calls of `calls`, when it
\* was refs before the first
RefsAfter(refs, calls, h, k) ==
    refs + CallCount(SubSeq(calls, 1, k), "rtcRetainScene", h, NullHandle)
         - CallCount(SubSeq(calls, 1, k), "rtcReleaseScene", h, NullHandle)

\* C13: in a commit_scene of an Uncommitted scene, rtcRetainScene is called
\* before the rtcReleaseScene of the Uncommitted wrapper's destruction; after
\* each native call of the commit the reference count of the scene's handle
\* is at least 1, and it is at least 1 when the Committed wrapper is
\* registered.
C13_RetainBeforeRelease ==
    [][CalledOn("commit_scene", "Uncommitted")
       => LET h == CalledScene.value.scene
              calls == native_calls'
          IN /\ 0 < FirstCall(calls, "rtcRetainScene")
             /\ FirstCall(calls, "rtcRetainScene")
                    < FirstCall(calls, "rtcReleaseScene")
             /\ \A k \in 0..Len(calls) :
                    RefsAfter(native_scenes[h].refs, calls, h, k) >= 1
             /\ native_scenes'[h].refs
                    = RefsAfter(native_scenes[h].refs, calls, h, Len(calls))
             /\ native_scenes'[h].refs >= 1
             /\ \E id \in ArenaLive(scenes') :
                    ArenaGet(scenes', id) = Some(Committed(h))]_vars

\* a commit_scene of an Uncommitted scene has returned: the engine has built
\* the scene and the wrapper's release has been called
C13_Witness ==
    /\ last.op = "commit_scene"
    /\ last.outcome = "ok"
    /\ Len(native_calls) = 3
    /\ native_calls[3].fn = "rtcReleaseScene"
    /\ native_scenes[native_calls[3].scene].committed

\* the native creation call of the last operation returned a null handle
ReturnedNull ==
    \/ last.op = "new" /\ native_device = NativeNoDevice
    \/ /\ last.op = "add_scene"
       /\ native_calls[1] = Call("rtcNewScene", NullHandle, NullHandle)

\* C14: an operation whose native creation call returned a null handle does
\* not panic: it returns to its caller, who can go on.
C14_NullHandleIsRecoverable ==
    ReturnedNull => last.outcome # "panic"

\* C15: Embree::new panics when rtcNewDevice returns null, and then there is
\* no Device wrapper and no registry entry; add_scene panics when rtcNewScene
\* returns null, and then it returns no SceneID, no id is issued and the
\* scene registry is the one before the call.
C15_NullHandleIsFatal ==
    /\ (last.op = "new" /\ native_device = NativeNoDevice)
       => /\ last.outcome = "panic"
          /\ device = NullHandle
          /\ ArenaLive(scenes) = {}
          /\ ArenaLive(geometries) = {}
    /\ [][(/\ last'.op = "add_scene"
           /\ native_calls'[1] = Call("rtcNewScene", NullHandle, NullHandle))
          => /\ last'.outcome = "panic"
             /\ last'.ret = None
             /\ scenes' = scenes
             /\ issued_scenes' = issued_scenes
             /\ native_scenes' = native_scenes]_vars

\* add_scene has panicked on a null scene handle while a scene is registered
C15_Witness ==
    /\ ReturnedNull
    /\ last.op = "add_scene"
    /\ last.outcome = "panic"
    /\ ArenaLive(scenes) # {}

\* Embree::new has panicked on a null device handle
C15_WitnessDevice ==
    /\ ReturnedNull
    /\ last.op = "new"
    /\ last.outcome = "panic"

\* the state the intersecting threads share has been reached by the calls of
\* the manager
IntersectSetupReached ==
    \E n \in SetupSizes : n = Cardinality(SetupSizes) - 1 /\ IntersectSetup(n)

\* what intersect_scene(scene_id, ray) returns when it runs alone
IntersectAlone(scene_id, ray) ==
    NativeIntersect(native_scenes, ArenaGet(scenes, scene_id).value.scene, ray,
                    HitDefault.geomID)

\* C16: whatever the interleaving of the threads inside intersect_scene, a
\* call that has returned has returned the geometry id the same call returns
\* when it runs alone, and no step of a call changes the scene registry, the
\* geometry registry, the identity map or the engine's scenes and geometries.
C16_IntersectIsPureRead ==
    /\ [](\A t \in Threads :
              intersects.thread[t].pc = "returned"
              => intersects.thread[t].ret =
                     Some(IntersectAlone(intersects.thread[t].scene_id.value,
                                         intersects.thread[t].ray.value)))
    /\ [][UNCHANGED <<scenes, geometries, geometry_id_map, native_scenes,
                      native_geoms>>]_vars

\* two threads were inside intersect_scene on the same scene at the same time
\* with different rays, and one of them has returned a hit
C16_Witness ==
    \E t, u \in Threads :
        /\ t # u
        /\ intersects.thread[t].pc = "returned"
        /\ intersects.thread[u].pc = "intersected"
        /\ intersects.thread[t].scene_id = intersects.thread[u].scene_id
        /\ intersects.thread[t].ray # intersects.thread[u].ray
        /\ intersects.thread[t].ret # Some(INVALID_GEOMETRY_ID)

\* C17: a native scene the engine has built keeps its attached geometries, in
\* the order they were bound, through every call of the manager, failed calls
\* included; and it stays built.
C17_CommittedSceneIsFrozen ==
    [][\A h \in DOMAIN native_scenes :
           native_scenes[h].committed
           => /\ native_scenes'[h].committed
              /\ native_scenes'[h].geoms = native_scenes[h].geoms]_vars

\* attach_geometry_to_scene has panicked on a Committed scene that has a
\* geometry attached
C17_Witness ==
    /\ last.op = "attach_geometry_to_scene"
    /\ last.outcome = "panic"
    /\ ArenaGet(scenes, last.scene_id.value) # None
    /\ native_scenes[ArenaGet(scenes, last.scene_id.value).value.scene].committed
    /\ native_scenes[ArenaGet(scenes, last.scene_id.value).value.scene].geoms
           # << >>

\* C18: a commit_scene(id) that returns leaves the number of live scenes as it
\* was; every other live SceneID resolves to the scene it resolved to, in the
\* same state; the native scene registered under id keeps the geometries
\* attached to it and every other native scene is untouched; the geometry
\* registry and the identity map are unchanged.
C18_CommitChangesOnlyItsScene ==
    [][(last'.op = "commit_scene" /\ last'.outcome = "ok")
       => /\ scenes'.len = scenes.len
          /\ Cardinality(ArenaLive(scenes')) = Cardinality(ArenaLive(scenes))
          /\ \A id \in ArenaLive(scenes) \ {last'.scene_id.value} :
                 ArenaGet(scenes', id) = ArenaGet(scenes, id)
          /\ \A h \in DOMAIN native_scenes :
                 /\ native_scenes'[h].geoms = native_scenes[h].geoms
                 /\ h # ArenaGet(scenes', last'.ret.value).value.scene
                    => native_scenes'[h] = native_scenes[h]
          /\ DOMAIN native_scenes' = DOMAIN native_scenes
          /\ geometries' = geometries
          /\ native_geoms' = native_geoms
          /\ geometry_id_map' = geometry_id_map]_vars

\* commit_scene has committed a scene with a geometry attached, next to
\* another live scene
C18_Witness ==
    /\ last.op = "commit_scene"
    /\ last.outcome = "ok"
    /\ native_calls # << >>
    /\ native_scenes[native_calls[1].scene].geoms # << >>
    /\ Cardinality(ArenaLive(scenes)) = 2

\* C19: while every call so far has returned normally, the identity map has
\* one entry per attach_geometry_to_scene call that returned, and the entry
\* maps the scene-local id of that attach to its GeometryID; an entry is
\* never removed and never changes its GeometryID in a call that returns
\* normally, and only attach_geometry_to_scene changes the map at all.
C19_OneEntryPerAttach ==
    /\ [](last.outcome = "ok"
          => /\ Cardinality(DOMAIN geometry_id_map) = Cardinality(attached)
             /\ \A a \in attached :
                    /\ a.geometry_scene_id \in DOMAIN geometry_id_map
                    /\ geometry_id_map[a.geometry_scene_id] = a.geometry_id)
    /\ [][/\ last'.outcome = "ok"
             => \A k \in DOMAIN geometry_id_map :
                    /\ k \in DOMAIN geometry_id_map'
                    /\ geometry_id_map'[k] = geometry_id_map[k]
          /\ last'.op # "attach_geometry_to_scene"
             => geometry_id_map' = geometry_id_map
          /\ (last'.op = "attach_geometry_to_scene" /\ last'.outcome = "ok")
             => Cardinality(DOMAIN geometry_id_map')
                    = Cardinality(DOMAIN geometry_id_map) + 1]_vars

\* two attaches have returned, and a commit_scene and an intersect_scene after
\* them
C19_Witness ==
    /\ last.op = "intersect_scene"
    /\ last.outcome = "ok"
    /\ Cardinality(attached) = 2
    /\ Cardinality(DOMAIN geometry_id_map) = 2

\* C20: attach_geometry_to_scene returns normally whenever its SceneID
\* resolves to an Uncommitted scene and its GeometryID resolves to a
\* geometry, whatever has been attached to other scenes.
C20_AttachToUncommittedSucceeds ==
    [][(/\ CalledOn("attach_geometry_to_scene", "Uncommitted")
        /\ ArenaGet(geometries, last'.geometry_id.value) # None)
       => last'.outcome = "ok"]_vars

\* C21: when attach_geometry_to_scene panics on its assertion, the scene-local
\* id that already had a mapping still maps to the GeometryID it mapped to,
\* the identity map is as it was, and the native scene has no more
\* geometries attached than before the call.
C21_RejectedRecordChangesNothing ==
    [][(/\ last'.op = "attach_geometry_to_scene"
        /\ last'.outcome = "panic"
        /\ CalledScene # None
        /\ attach_scene_match(CalledScene.value) # None
        /\ ArenaGet(geometries, last'.geometry_id.value) # None)
       => /\ geometry_id_map' = geometry_id_map
          /\ native_scenes' = native_scenes]_vars

\* the call of the step fails a precondition: its SceneID does not resolve,
\* or its scene is Committed for an attach or Uncommitted for an intersect,
\* or the GeometryID of an attach does not resolve
PreconditionFails ==
    \/ /\ last'.op \in {"commit_scene", "attach_geometry_to_scene",
                        "intersect_scene"}
       /\ CalledScene = None
    \/ CalledOn("attach_geometry_to_scene", "Committed")
    \/ CalledOn("intersect_scene", "Uncommitted")
    \/ /\ last'.op = "attach_geometry_to_scene"
       /\ ArenaGet(geometries, last'.geometry_id.value) = None

\* C22: a commit_scene, attach_geometry_to_scene or intersect_scene call that
\* fails a precondition panics without a native call, and leaves the scene
\* registry, the geometry registry, the identity map and the engine's scenes
\* (attached geometries, reference counts, built or not) and geometries as
\* they were.
C22_PreconditionFailureIsAtomic ==
    [][PreconditionFails
       => /\ last'.outcome = "panic"
          /\ native_calls' = << >>
          /\ UNCHANGED <<scenes, geometries, geometry_id_map, native_scenes,
                         native_geoms, native_device, device>>]_vars

\* attach_geometry_to_scene has panicked on a GeometryID that does not
\* resolve, given a live Uncommitted scene that has a geometry attached
C22_Witness ==
    /\ last.op = "attach_geometry_to_scene"
    /\ last.outcome = "panic"
    /\ ArenaGet(scenes, last.scene_id.value) # None
    /\ ArenaGet(scenes, last.scene_id.value).value.state = "Uncommitted"
    /\ ArenaGet(geometries, last.geometry_id.value) = None
    /\ native_scenes[ArenaGet(scenes, last.scene_id.value).value.scene].geoms
           # << >>

\* C23: every scene wrapper and every geometry wrapper held in a registry
\* holds a native handle that is not null.
C23_NoNullHandleRegistered ==
    /\ \A id \in ArenaLive(scenes) :
           ArenaGet(scenes, id).value.scene # NullHandle
    /\ \A id \in ArenaLive(geometries) :
           ArenaGet(geometries, id).value.geometry # NullHandle

\* the wrappers registered in arena a that hold the handle x in field f
OwnersOf(a, f, x) == SelectSeq(ArenaValues(a), LAMBDA v : v[f] = x)

\* C24: until the manager is destroyed, every native scene and every native
\* geometry is held by exactly one live wrapper and its count of wrapper-side
\* references is exactly 1, after a commit_scene of an Uncommitted or of a
\* Committed scene as after any other call; when the manager has been
\* destroyed, rtcReleaseScene has been called exactly once on every scene,
\* rtcReleaseGeometry exactly once on every geometry, and every count is 0.
C24_RefCountsBalanced ==
    IF last.op = "drop"
    THEN /\ \A h \in DOMAIN native_scenes :
                /\ CallCount(native_calls, "rtcReleaseScene", h, NullHandle) = 1
                /\ native_scenes[h].refs = 0
         /\ \A gh \in DOMAIN native_geoms :
                /\ CallCount(native_calls, "rtcReleaseGeometry", NullHandle, gh)
                       = 1
                /\ native_geoms[gh].refs = 0
         /\ Len(native_calls) = 1 + Len(native_scenes) + Len(native_geoms)
    ELSE /\ \A h \in DOMAIN native_scenes :
                /\ Len(OwnersOf(scenes, "scene", h)) = 1
                /\ native_scenes[h].refs = 1
         /\ \A gh \in DOMAIN native_geoms :
                /\ Len(OwnersOf(geometries, "geometry", gh)) = 1
                /\ native_geoms[gh].refs = 1

\* the manager has been destroyed after a scene went through commit_scene
\* twice, with a second scene and a geometry registered
C24_Witness ==
    /\ last.op = "drop"
    /\ Len(native_scenes) = 2
    /\ Len(issued_scenes) = 4
    /\ native_geoms # << >>
    /\ \E h \in DOMAIN native_scenes : native_scenes[h].committed

====
